---- MODULE Spec2Model ----
(***************************************************************************)
(* Model of the generate-chart endpoint (src/api/generate-chart.js): the   *)
(* request handler, the per-symbol Series Fetcher (fetchStockData) and the *)
(* chart builder with its sampler (createChartConfig); and of the          *)
(* stock-data endpoint (src/api/stock-data.js), at the end of the module.  *)
(*                                                                         *)
(* Units.  TLC integers are 32 bit, so                                     *)
(*   - a Date object is represented by its epoch SECONDS (the code builds  *)
(*     it from an integer number of seconds, so nothing is lost);          *)
(*   - an upstream price is an integer number of mills (1/1000 of the      *)
(*     currency unit), a cleaned price an integer number of cents;         *)
(*   - a percentage rendered by toFixed(2) is an integer number of         *)
(*     hundredths of a percent.                                            *)
(* Decimal rounding is exact (round half away from zero); binary floating  *)
(* point representation error of toFixed is outside the model.             *)
(***************************************************************************)
EXTENDS Integers, Sequences, FiniteSets, TLC

VARIABLES
    pc,              \* position of the handler (or of the function applied)
    req,             \* the inbound request: [method, body]
    fetches,         \* per request index: the fetchStockData call and its promise
    validStockData,  \* success partition (handler local)
    errors,          \* failure partition (handler local)
    chartConfig,     \* what createChartConfig returned
    rendererCalls,   \* number of calls made to the chart renderer
    lastSettled,     \* request index of the fetch that settled last (0: none)
    rendered,        \* what the renderer answered (NoValue until it did)
    res,             \* the response sent (NoResponse until one is sent)
    sent,            \* number of responses sent
    arg,             \* input of the function applied (SpecFetch, SpecChart)
    ret              \* its result

vars == <<pc, req, fetches, validStockData, errors, chartConfig, rendererCalls,
          lastSettled, rendered, res, sent, arg, ret>>

(***************************************************************************)
(* Bounds of the model                                                     *)
(***************************************************************************)
\* longest upstream timestamp/close array enumerated exhaustively
MaxRawLen == 3
\* longest generated (regular) series handed to the sampler
MaxLen == 160

(***************************************************************************)
(* JSON values of the upstream payload                                     *)
(***************************************************************************)
\* JSON null / a missing property
Null == [t |-> "null"]
\* a value v for which isNaN(v) is true
NaNValue == [t |-> "NaN"]
\* array access past the end
Undefined == [t |-> "undefined"]
\* a number, in mills
Num(v) == [t |-> "num", v |-> v]
\* an array
Arr(items) == [t |-> "array", items |-> items]

Min(a, b) == IF a < b THEN a ELSE b
Max(a, b) == IF a > b THEN a ELSE b
Abs(a) == IF a < 0 THEN -a ELSE a

\* the elements of a sequence
Range(seq) == {seq[k] : k \in DOMAIN seq}

\* prices[i] of a JavaScript array, i counted from 0
At(arr, i) == IF i + 1 \in DOMAIN arr THEN arr[i + 1] ELSE Undefined

(***************************************************************************)
(* Range Resolver: fetchStockData, first half (up to the upstream call)    *)
(***************************************************************************)
secondsPerDay == 24 * 60 * 60

\* a body without a range property
AbsentRange == "<absent>"

\* const { symbols, range = '1Y' } = req.body
DefaultRange(r) == IF r = AbsentRange THEN "1Y" ELSE r

\* Math.floor(now / 1000), now in milliseconds
NowUnix(now) == now \div 1000

\* the switch with the half year of 180 days
Period1HalfYear180(range, nowUnix) ==
    CASE range = "1M" -> nowUnix - (30 * secondsPerDay)
      [] range = "3M" -> nowUnix - (90 * secondsPerDay)
      [] range = "6M" -> nowUnix - (180 * secondsPerDay)
      [] range = "1Y" -> nowUnix - (365 * secondsPerDay)
      [] range = "5Y" -> nowUnix - (5 * 365 * secondsPerDay)
      [] OTHER        -> nowUnix - (365 * secondsPerDay)

\* the switch over range
Period1(range, nowUnix) ==
    CASE range = "1M" -> nowUnix - (30 * secondsPerDay)
      [] range = "3M" -> nowUnix - (90 * secondsPerDay)
      [] range = "6M" -> nowUnix - (182 * secondsPerDay)
      [] range = "1Y" -> nowUnix - (365 * secondsPerDay)
      [] range = "5Y" -> nowUnix - (5 * 365 * secondsPerDay)
      [] OTHER        -> nowUnix - (365 * secondsPerDay)

Interval(range) == IF range = "5Y" THEN "1wk" ELSE "1d"

\* a symbol that is not a string has no toUpperCase: the call throws
NonString == "<42>"
IsString(symbol) == symbol # NonString

\* symbol.toUpperCase() over the symbols of the model
ToUpperCase(symbol) ==
    CASE symbol = "aapl" -> "AAPL"
      [] OTHER -> symbol

\* the upstream request the call issues (the yahooUrl)
YahooRequest(symbol, range, now) ==
    [symbol  |-> ToUpperCase(symbol),
     period1 |-> Period1(range, NowUnix(now)),
     period2 |-> NowUnix(now),
     interval |-> Interval(range)]

(***************************************************************************)
(* Series Fetcher: fetchStockData, second half (cleaning)                  *)
(***************************************************************************)
\* a truthiness test in place of the three comparisons: if (prices[i])
ValidPriceTruthy(p) == p # Null /\ p # Undefined /\ p # NaNValue /\ p # Num(0)

\* prices[i] !== null && prices[i] !== undefined && !isNaN(prices[i])
ValidPrice(p) == p # Null /\ p # Undefined /\ p # NaNValue

\* parseFloat(p.toFixed(2)): mills to cents, half away from zero
ToFixed2(mills) ==
    IF mills >= 0 THEN (mills + 5) \div 10 ELSE -((-mills + 5) \div 10)

\* the cleaning loop: one point per timestamp position with a valid price
RECURSIVE CleanLoop(_, _, _)
CleanLoop(timestamps, prices, i) ==
    IF i >= Len(timestamps) THEN <<>>
    ELSE LET rest == CleanLoop(timestamps, prices, i + 1)
         IN  IF ValidPrice(At(prices, i))
             THEN <<[date |-> timestamps[i + 1],
                     price |-> ToFixed2(At(prices, i).v)]>> \o rest
             ELSE rest

\* insert p after every element that is not later than it (stable)
RECURSIVE InsertByDate(_, _)
InsertByDate(sorted, p) ==
    IF sorted = <<>> THEN <<p>>
    ELSE IF Head(sorted).date - p.date > 0
         THEN <<p>> \o sorted
         ELSE <<Head(sorted)>> \o InsertByDate(Tail(sorted), p)

\* the sort left out
SortByDateSkipped(data) == data

\* cleanData.sort((a, b) => a.date - b.date): Array.prototype.sort is stable
RECURSIVE SortByDate(_)
SortByDate(data) ==
    IF data = <<>> THEN <<>>
    ELSE InsertByDate(SortByDate(SubSeq(data, 1, Len(data) - 1)), data[Len(data)])

\* what the upstream call produced: the call or response.json() threw, or
\* response.ok and the parsed data.chart = {error, result: [{timestamp,
\* indicators: {quote: [{close}]}}]}
Threw(message) ==
    [threw |-> TRUE, message |-> message, ok |-> FALSE, error |-> Null,
     timestamp |-> Null, close |-> Null]
HttpResponse(ok, error, timestamp, close) ==
    [threw |-> FALSE, message |-> "", ok |-> ok, error |-> error,
     timestamp |-> timestamp, close |-> close]

\* fetchStockData from the upstream response on
FetchResult(request, response) ==
    IF response.threw
    THEN [success |-> FALSE, error |-> response.message]
    ELSE IF ~response.ok \/ response.error # Null
    THEN [success |-> FALSE,
          error |-> IF response.error # Null THEN response.error.description
                    ELSE "Failed to fetch data"]
    ELSE IF response.timestamp = Null \/ response.close = Null
    THEN [success |-> FALSE, error |-> "Invalid data structure received"]
    ELSE LET timestamps == response.timestamp.items
             prices == response.close.items
             cleanData == SortByDate(CleanLoop(timestamps, prices, 0))
         IN  [success |-> TRUE,
              data |-> cleanData,
              debug |-> [totalPoints |-> Len(timestamps),
                         cleanPoints |-> Len(cleanData),
                         interval |-> request.interval]]

\* async function fetchStockData(symbol, range), the clock and the upstream
\* response given
fetchStockData(symbol, range, now, response) ==
    IF ~IsString(symbol)
    THEN [success |-> FALSE, error |-> "symbol.toUpperCase is not a function"]
    ELSE FetchResult(YahooRequest(symbol, range, now), response)

(***************************************************************************)
(* Series Sampler and Chart Series Builder: createChartConfig              *)
(***************************************************************************)
\* the divisor of the step: "Aim for ~50 points max"
SampleBudget == 50

\* Math.max(1, Math.floor(length / 50))
Step(length) == Max(1, length \div SampleBudget)

\* for (let i = 0; i < length; i += step): the indices visited, from 0
LoopIndices(length) ==
    [k \in 1..((length + Step(length) - 1) \div Step(length)) |-> (k - 1) * Step(length)]

\* the last point appended whatever the loop emitted
SingleIndicesAlwaysAppend(length) ==
    LoopIndices(length) \o (IF length > 0 THEN <<length - 1>> ELSE <<>>)

\* single stock: the loop, then "Always include the last point"
SingleIndices(length) ==
    LoopIndices(length) \o
        (IF length > 0 /\ length % Step(length) # 0 THEN <<length - 1>> ELSE <<>>)

\* comparison: the loop alone
ComparisonIndices(length) == LoopIndices(length)

\* date.toISOString().split('T')[0]: the UTC day, as a day number
DateLabel(date) == date \div (24 * 60 * 60)

\* a y-value: a number of cents (single stock), or the string toFixed(2) gave
Price(cents) == [t |-> "price", v |-> cents]
Fixed2(hundredths) == [t |-> "pct", v |-> hundredths]
NaNString == [t |-> "NaN"]
InfinityString == [t |-> "Infinity"]
MinusInfinityString == [t |-> "-Infinity"]

\* ((price - firstPrice) / firstPrice * 100).toFixed(2)
PercentChange(price, firstPrice) ==
    IF firstPrice = 0
    THEN (IF price = 0 THEN NaNString
          ELSE IF price > 0 THEN InfinityString ELSE MinusInfinityString)
    ELSE LET n == 10000 * (price - firstPrice)
             q == (2 * Abs(n) + Abs(firstPrice)) \div (2 * Abs(firstPrice))
         IN  Fixed2(IF (n < 0) # (firstPrice < 0) THEN -q ELSE q)

\* stockData.forEach((stock, index) => ...): one dataset per non-empty series
ComparisonDataset(stock) ==
    LET firstPrice == stock.data[1].price
        idx == ComparisonIndices(Len(stock.data))
    IN  [label |-> stock.symbol,
         labels |-> [k \in DOMAIN idx |-> DateLabel(stock.data[idx[k] + 1].date)],
         data |-> [k \in DOMAIN idx |->
                      PercentChange(stock.data[idx[k] + 1].price, firstPrice)]]

RECURSIVE ComparisonDatasets(_, _)
ComparisonDatasets(stockData, index) ==
    IF index > Len(stockData) THEN <<>>
    ELSE IF Len(stockData[index].data) = 0
         THEN ComparisonDatasets(stockData, index + 1)
         ELSE <<[label |-> ComparisonDataset(stockData[index]).label,
                 data |-> ComparisonDataset(stockData[index]).data]>>
              \o ComparisonDatasets(stockData, index + 1)

\* stockData[0].data.filter((_, i) => i % step === 0).map(label)
ComparisonLabels(data) ==
    LET idx == LoopIndices(Len(data))
    IN  [k \in DOMAIN idx |-> DateLabel(data[idx[k] + 1].date)]

\* Math.min(...prices) and Math.max(...prices)
SeqMin(s) == CHOOSE m \in Range(s) : \A k \in DOMAIN s : m <= s[k]
SeqMax(s) == CHOOSE m \in Range(s) : \A k \in DOMAIN s : m >= s[k]

\* createChartConfig returned {}
EmptyObject == [type |-> "{}"]

SingleConfig(stock, range) ==
    LET idx == SingleIndices(Len(stock.data))
        labels == [k \in DOMAIN idx |-> DateLabel(stock.data[idx[k] + 1].date)]
        prices == [k \in DOMAIN idx |-> stock.data[idx[k] + 1].price]
        minPrice == SeqMin(prices)
        maxPrice == SeqMax(prices)
    IN  [type |-> "line",
         labels |-> labels,
         datasets |-> <<[label |-> <<stock.symbol, "Price">>,
                         data |-> [k \in DOMAIN prices |-> Price(prices[k])],
                         pointRadius |-> IF Len(prices) > 50 THEN 0 ELSE 3]>>,
         title |-> <<stock.symbol, range, "Chart">>,
         \* minPrice - padding and maxPrice + padding, padding a tenth of the
         \* spread: in mills
         suggestedMin |-> 10 * minPrice - (maxPrice - minPrice),
         suggestedMax |-> 10 * maxPrice + (maxPrice - minPrice),
         yTitle |-> "Price ($)"]

createChartConfig(stockData, range) ==
    IF Len(stockData) > 1
    THEN [type |-> "line",
          labels |-> ComparisonLabels(stockData[1].data),
          datasets |-> ComparisonDatasets(stockData, 1),
          title |-> <<"Stock Comparison - % Change", range>>,
          yTitle |-> "Percentage Change (%)"]
    ELSE IF Len(stockData[1].data) = 0 THEN EmptyObject
    ELSE SingleConfig(stockData[1], range)

(***************************************************************************)
(* Inputs                                                                  *)
(***************************************************************************)
\* a variable that holds nothing (yet)
NoValue == [t |-> "none"]

\* all sequences over S of length at most n
SeqsUpTo(S, n) == UNION {[1..k -> S] : k \in 0..n}

\* range tokens a body can carry: the five of the table, others, none
Ranges == {"1M", "3M", "6M", "1Y", "5Y", "2W", "", AbsentRange}

\* Date.now(), in milliseconds
NowValues == {0, 999, 1000, 1999, 86400000, 2000000999}

\* upstream timestamps (seconds) and close prices (mills)
TsValues == {0, 3600, 86400}
CloseValues == {Null, NaNValue, Num(0), Num(4), Num(12345)}
RawTimestamps == SeqsUpTo(TsValues, MaxRawLen)
RawCloses == SeqsUpTo(CloseValues, MaxRawLen)

\* responses that are no series
FailedResponses ==
    {Threw("network error"),
     HttpResponse(FALSE, Null, Null, Null),
     HttpResponse(FALSE, [description |-> "No data found"], Null, Null),
     HttpResponse(TRUE, [description |-> "No data found"], Null, Null),
     HttpResponse(TRUE, Null, Null, Null),
     HttpResponse(TRUE, Null, Arr(<<0>>), Null)}

FetchArgs ==
    {[symbol |-> s, range |-> r, now |-> n, response |-> resp] :
        s \in {"aapl", "MSFT", NonString}, r \in Ranges, n \in NowValues,
        resp \in FailedResponses \cup
                 {HttpResponse(TRUE, Null, Arr(<<86400, 0>>), Arr(<<Num(12345), Null>>))}}
    \cup
    {[symbol |-> "MSFT", range |-> "1Y", now |-> 1999,
      response |-> HttpResponse(TRUE, Null, Arr(ts), Arr(cl))] :
        ts \in RawTimestamps, cl \in RawCloses}

\* a cleaned series of the given length: one point a day from the epoch on,
\* prices in cents from firstPrice on, no two alike within 101 points
GenSeries(length, firstPrice) ==
    [i \in 1..length |->
        [date |-> (i - 1) * 86400, price |-> firstPrice + (((i - 1) * 37) % 101) * 10]]

\* an entry of the success partition
Stock(symbol, data) == [symbol |-> symbol, data |-> data]

\* first prices: 0.00 (a price below half a cent) and 150.00
FirstPrices == {0, 15000}

LongSeries == {GenSeries(length, p) : length \in 0..MaxLen, p \in FirstPrices}

\* short cleaned series: empty, hourly points of one day, a fall to 0.00
ShortSeries ==
    {<<>>,
     <<[date |-> 0, price |-> 1235], [date |-> 3600, price |-> 1235],
       [date |-> 86400, price |-> 0]>>,
     GenSeries(7, 250)}

ChartArgs ==
    {[stockData |-> <<Stock("AAPL", a)>>, range |-> "1Y"] : a \in LongSeries}
    \cup
    {[stockData |-> <<Stock("AAPL", a), Stock("MSFT", b)>>, range |-> "6M"] :
        a \in LongSeries, b \in ShortSeries \cup {GenSeries(MaxLen, 15000)}}
    \cup
    {[stockData |-> <<Stock("MSFT", b), Stock("AAPL", a), Stock("MSFT", c)>>,
      range |-> "5Y"] :
        a \in {GenSeries(MaxLen, 0)}, b \in ShortSeries, c \in ShortSeries}

(***************************************************************************)
(* The request handler (module.exports)                                    *)
(***************************************************************************)
\* "Maximum 5 symbols allowed for comparison"
MaxSymbols == 5

\* a JSON string
Str(v) == [t |-> "string", v |-> v]

\* a value that is there (x?.y gave a value, not undefined)
Some(v) == [t |-> "value", v |-> v]

Symbols == {"aapl", "MSFT", NonString}
SymbolPool == <<"AAPL", "MSFT", "GOOGL", "AAPL", "TSLA", "NVDA">>

\* the arrays a body carries as symbols: every list of up to two symbols, and
\* the lists of three to six symbols that start the pool
SymbolLists ==
    SeqsUpTo(Symbols, 2) \cup {SubSeq(SymbolPool, 1, n) : n \in 3..(MaxSymbols + 1)}

\* req.body: none at all, or an object whose symbols property is missing,
\* null, a string or an array
Bodies ==
    {Null} \cup
    {[symbols |-> sy, range |-> AbsentRange] : sy \in {Undefined, Null, Str("AAPL")}} \cup
    {[symbols |-> Arr(l), range |-> r] : l \in SymbolLists, r \in {AbsentRange, "5Y"}}

Requests ==
    {[method |-> m, body |-> Null] : m \in {"OPTIONS", "GET"}} \cup
    {[method |-> "POST", body |-> b] : b \in Bodies}

\* what the price-history provider answers to one call of the handler
HandlerResponses ==
    {Threw("network error"),
     HttpResponse(FALSE, [description |-> "No data found"], Null, Null),
     HttpResponse(TRUE, Null, Arr(<<0, 86400>>), Arr(<<Null, Null>>)),
     HttpResponse(TRUE, Null, Arr(<<86400, 0>>), Arr(<<Num(12345), Num(4)>>)),
     HttpResponse(TRUE, Null, Arr(<<0, 3600, 86400>>), Arr(<<Num(20000), Null, Num(21004)>>))}

\* the clock of the handler's calls, in milliseconds
HandlerNow == 86400999

\* what the renderer call comes to: an image, a response that is not ok, an
\* exception of fetch (no response), an exception of chartResponse.buffer()
\* (an ok response whose body cannot be read)
RendererOutcomes ==
    {[threw |-> FALSE, ok |-> TRUE, buffer |-> "PNG"],
     [threw |-> FALSE, ok |-> FALSE, buffer |-> ""],
     [threw |-> TRUE, ok |-> FALSE, buffer |-> ""],
     [threw |-> TRUE, ok |-> TRUE, buffer |-> ""]}

\* imageBuffer.toString('base64') over the buffers of the model
Base64(buffer) ==
    CASE buffer = "PNG" -> "UE5H"
      [] buffer = "" -> ""

\* res.status(code).json(body) / .end()
Response(status, body) == [status |-> status, body |-> body]

\* symbols.map(symbol => fetchStockData(symbol, range)): every call runs up to
\* its upstream call; a call whose symbol has no toUpperCase is over at once
IssueFetch(symbol, range, now) ==
    IF IsString(symbol)
    THEN [symbol |-> symbol, state |-> "pending", upstreamCalls |-> 1,
          request |-> YahooRequest(symbol, range, now), value |-> NoValue]
    ELSE [symbol |-> symbol, state |-> "settled", upstreamCalls |-> 0,
          request |-> NoValue,
          value |-> [success |-> FALSE, error |-> "symbol.toUpperCase is not a function"]]

\* the result Promise.allSettled reports for a call: fetchStockData catches
\* whatever is thrown, so its promise is always fulfilled
Settled(fetch) == [status |-> "fulfilled", value |-> fetch.value]

\* result.status === 'fulfilled' && result.value.success
IsValid(result) == result.status = "fulfilled" /\ result.value.success

\* forEach that puts a success at the front: validStockData.unshift(...)
RECURSIVE ValidPartitionUnshift(_, _, _)
ValidPartitionUnshift(symbols, results, index) ==
    IF index > Len(results) THEN <<>>
    ELSE ValidPartitionUnshift(symbols, results, index + 1) \o
         (IF IsValid(results[index])
          THEN <<[symbol |-> symbols[index],
                  data |-> results[index].value.data,
                  debug |-> results[index].value.debug]>>
          ELSE <<>>)

\* stockDataResults.forEach: the pushes to validStockData, in index order
RECURSIVE ValidPartition(_, _, _)
ValidPartition(symbols, results, index) ==
    IF index > Len(results) THEN <<>>
    ELSE (IF IsValid(results[index])
          THEN <<[symbol |-> symbols[index],
                  data |-> results[index].value.data,
                  debug |-> results[index].value.debug]>>
          ELSE <<>>) \o ValidPartition(symbols, results, index + 1)

\* errors that takes the rejected promises only
RECURSIVE ErrorPartitionRejectedOnly(_, _, _)
ErrorPartitionRejectedOnly(symbols, results, index) ==
    IF index > Len(results) THEN <<>>
    ELSE (IF results[index].status = "rejected"
          THEN <<[symbol |-> symbols[index], error |-> results[index].reason]>>
          ELSE <<>>) \o ErrorPartitionRejectedOnly(symbols, results, index + 1)

\* stockDataResults.forEach: the pushes to errors, in index order
RECURSIVE ErrorPartition(_, _, _)
ErrorPartition(symbols, results, index) ==
    IF index > Len(results) THEN <<>>
    ELSE (IF IsValid(results[index])
          THEN <<>>
          ELSE <<[symbol |-> symbols[index],
                  error |-> IF results[index].status = "rejected"
                            THEN results[index].reason
                            ELSE results[index].value.error]>>)
         \o ErrorPartition(symbols, results, index + 1)

\* the debug entry of the 200 response for one successful symbol
DebugEntry(s) ==
    [symbol |-> s.symbol,
     dataPoints |-> Len(s.data),
     startDate |-> IF Len(s.data) > 0 THEN Some(s.data[1].date) ELSE Undefined,
     endDate |-> IF Len(s.data) > 0 THEN Some(s.data[Len(s.data)].date) ELSE Undefined,
     startPrice |-> IF Len(s.data) > 0 THEN Some(s.data[1].price) ELSE Undefined,
     endPrice |-> IF Len(s.data) > 0 THEN Some(s.data[Len(s.data)].price) ELSE Undefined]

\* the body of the 200 response
SuccessBody(valid, range, base64Image) ==
    [success |-> TRUE,
     image |-> <<"data:image/png;base64,", base64Image>>,
     symbols |-> [k \in DOMAIN valid |-> valid[k].symbol],
     range |-> range,
     debug |-> [k \in DOMAIN valid |-> DebugEntry(valid[k])]]

\* the catch block of the handler
CaughtBody(message) == [error |-> "Failed to generate chart", message |-> message]

Init ==
    /\ pc = "request"
    /\ req \in Requests
    /\ fetches = <<>>
    /\ validStockData = <<>>
    /\ errors = <<>>
    /\ chartConfig = NoValue
    /\ rendererCalls = 0
    /\ lastSettled = 0
    /\ rendered = NoValue
    /\ res = NoValue
    /\ sent = 0
    /\ arg = NoValue
    /\ ret = NoValue

\* send a response and finish
Send(status, body) ==
    /\ res' = Response(status, body)
    /\ sent' = sent + 1
    /\ pc' = "done"

\* if (req.method === 'OPTIONS') return res.status(200).end()
Preflight ==
    /\ pc = "request"
    /\ req.method = "OPTIONS"
    /\ Send(200, NoValue)
    /\ UNCHANGED <<lastSettled, rendered,
                   req, fetches, validStockData, errors, chartConfig, rendererCalls,
                   arg, ret>>

\* if (req.method !== 'POST') return res.status(405)
MethodNotAllowed ==
    /\ pc = "request"
    /\ req.method \notin {"OPTIONS", "POST"}
    /\ Send(405, [error |-> "Method not allowed"])
    /\ UNCHANGED <<lastSettled, rendered,
                   req, fetches, validStockData, errors, chartConfig, rendererCalls,
                   arg, ret>>

\* const { symbols, range = '1Y' } = req.body with no body: a TypeError, caught
DestructureThrows ==
    /\ pc = "request"
    /\ req.method = "POST"
    /\ req.body = Null
    /\ Send(500, CaughtBody("Cannot destructure property 'symbols'"))
    /\ UNCHANGED <<lastSettled, rendered,
                   req, fetches, validStockData, errors, chartConfig, rendererCalls,
                   arg, ret>>

\* !symbols || !Array.isArray(symbols) || symbols.length === 0
SymbolsRequired(symbols) ==
    IF symbols.t # "array" THEN TRUE ELSE Len(symbols.items) = 0

RejectMissing ==
    /\ pc = "request"
    /\ req.method = "POST"
    /\ req.body # Null
    /\ SymbolsRequired(req.body.symbols)
    /\ Send(400, [error |-> "Stock symbols required"])
    /\ UNCHANGED <<lastSettled, rendered,
                   req, fetches, validStockData, errors, chartConfig, rendererCalls,
                   arg, ret>>

\* symbols.length > 5
TooMany(symbols) == Len(symbols.items) > MaxSymbols

RejectTooMany ==
    /\ pc = "request"
    /\ req.method = "POST"
    /\ req.body # Null
    /\ ~SymbolsRequired(req.body.symbols)
    /\ TooMany(req.body.symbols)
    /\ Send(400, [error |-> "Maximum 5 symbols allowed for comparison"])
    /\ UNCHANGED <<lastSettled, rendered,
                   req, fetches, validStockData, errors, chartConfig, rendererCalls,
                   arg, ret>>

\* the fetches are issued, all of them, and the handler awaits allSettled
IssueFetches ==
    /\ pc = "request"
    /\ req.method = "POST"
    /\ req.body # Null
    /\ ~SymbolsRequired(req.body.symbols)
    /\ ~TooMany(req.body.symbols)
    /\ fetches' = [i \in DOMAIN req.body.symbols.items |->
                     IssueFetch(req.body.symbols.items[i],
                                DefaultRange(req.body.range), HandlerNow)]
    /\ pc' = "allSettled"
    /\ UNCHANGED <<lastSettled, rendered,
                   req, validStockData, errors, chartConfig, rendererCalls, res, sent,
                   arg, ret>>

\* a fetch that is tried again once after a failure
UpstreamAnswersWithRetry(i, response) ==
    /\ pc = "allSettled"
    /\ fetches[i].state = "pending"
    /\ fetches' =
           IF ~FetchResult(fetches[i].request, response).success
              /\ fetches[i].upstreamCalls < 2
           THEN [fetches EXCEPT ![i].upstreamCalls = fetches[i].upstreamCalls + 1]
           ELSE [fetches EXCEPT ![i].state = "settled",
                                ![i].value = FetchResult(fetches[i].request, response)]
    /\ lastSettled' = i
    /\ UNCHANGED <<rendered, pc, req, validStockData, errors, chartConfig, rendererCalls,
                   res, sent, arg, ret>>

\* the provider answers call i (in any order): the call runs to its end
UpstreamAnswers(i, response) ==
    /\ pc = "allSettled"
    /\ fetches[i].state = "pending"
    /\ fetches' = [fetches EXCEPT ![i].state = "settled",
                                  ![i].value = FetchResult(fetches[i].request, response)]
    /\ lastSettled' = i
    /\ UNCHANGED <<rendered, pc, req, validStockData, errors, chartConfig, rendererCalls, res,
                   sent, arg, ret>>

AllSettled == \A i \in DOMAIN fetches : fetches[i].state = "settled"

\* what the forEach leaves in validStockData and errors
PartitionValid ==
    ValidPartition(req.body.symbols.items, [i \in DOMAIN fetches |-> Settled(fetches[i])], 1)
PartitionErrors ==
    ErrorPartition(req.body.symbols.items, [i \in DOMAIN fetches |-> Settled(fetches[i])], 1)

\* a handler without the return before res.status(404): the 404 is sent, the
\* handler goes on to createChartConfig([]), which throws, and the catch block
\* sends a second response
NoValidDataFallsThrough ==
    /\ pc = "allSettled"
    /\ AllSettled
    /\ Len(PartitionValid) = 0
    /\ validStockData' = PartitionValid
    /\ errors' = PartitionErrors
    /\ res' = Response(500, CaughtBody("Cannot read properties of undefined"))
    /\ sent' = sent + 2
    /\ pc' = "done"
    /\ UNCHANGED <<lastSettled, rendered, req, fetches, chartConfig, rendererCalls,
                   arg, ret>>

\* allSettled resolved, nothing valid: 404
NoValidData ==
    /\ pc = "allSettled"
    /\ AllSettled
    /\ Len(PartitionValid) = 0
    /\ validStockData' = PartitionValid
    /\ errors' = PartitionErrors
    /\ Send(404, [error |-> "No valid stock data found", details |-> PartitionErrors])
    /\ UNCHANGED <<lastSettled, rendered, req, fetches, chartConfig, rendererCalls, arg, ret>>

\* allSettled resolved, something valid: the chart is built and the renderer
\* called
BuildChart ==
    /\ pc = "allSettled"
    /\ AllSettled
    /\ Len(PartitionValid) # 0
    /\ validStockData' = PartitionValid
    /\ errors' = PartitionErrors
    /\ chartConfig' = createChartConfig(PartitionValid, DefaultRange(req.body.range))
    /\ rendererCalls' = rendererCalls + 1
    /\ pc' = "rendering"
    /\ UNCHANGED <<lastSettled, rendered, req, fetches, res, sent, arg, ret>>

\* a handler without the check of chartResponse.ok
RendererAnswersOkUnchecked(outcome) ==
    /\ pc = "rendering"
    /\ IF outcome.threw
       THEN Send(500, CaughtBody("request to https://quickchart.io/chart failed"))
       ELSE Send(200, SuccessBody(validStockData, DefaultRange(req.body.range),
                                  Base64(outcome.buffer)))
    /\ rendered' = outcome
    /\ UNCHANGED <<lastSettled, req, fetches, validStockData, errors, chartConfig,
                   rendererCalls, arg, ret>>

\* the renderer answers: 200 with the image, or the catch block's 500
RendererAnswers(outcome) ==
    /\ pc = "rendering"
    /\ IF outcome.threw
       THEN Send(500, CaughtBody(IF outcome.ok THEN "Premature close"
                                 ELSE "request to https://quickchart.io/chart failed"))
       ELSE IF ~outcome.ok
       THEN Send(500, CaughtBody("Failed to generate chart from QuickChart"))
       ELSE Send(200, SuccessBody(validStockData, DefaultRange(req.body.range),
                                  Base64(outcome.buffer)))
    /\ rendered' = outcome
    /\ UNCHANGED <<lastSettled, req, fetches, validStockData, errors, chartConfig, rendererCalls,
                   arg, ret>>

Next ==
    \/ Preflight
    \/ MethodNotAllowed
    \/ DestructureThrows
    \/ RejectMissing
    \/ RejectTooMany
    \/ IssueFetches
    \/ \E i \in DOMAIN fetches : \E response \in HandlerResponses :
           UpstreamAnswers(i, response)
    \/ NoValidData
    \/ BuildChart
    \/ \E outcome \in RendererOutcomes : RendererAnswers(outcome)

Spec == Init /\ [][Next]_vars

(***************************************************************************)
(* Properties of the handler (under Spec)                                  *)
(***************************************************************************)
\* the forEach over the settled results has run
Partitioned == pc \in {"rendering", "done"} /\ fetches # <<>>

\* the request indices whose fetch succeeded
Succeeded == {i \in DOMAIN fetches : fetches[i].value.success}

\* C3: N symbols of which K fetches succeed, in any completion order.  K = 0:
\* the answer is 404 'No valid stock data found' with exactly N failure entries
\* and the renderer is never called.  K >= 1: the success partition has K
\* entries, the failure partition N-K, and the chart is built.
AggregatorPartition ==
    /\ pc = "allSettled" => (rendererCalls = 0 /\ sent = 0)
    /\ Partitioned =>
           LET N == Len(req.body.symbols.items)
               K == Cardinality(Succeeded)
           IN  /\ Len(fetches) = N /\ N >= 1 /\ N <= 5
               /\ K = 0 => /\ pc = "done"
                           /\ res.status = 404
                           /\ res.body.error = "No valid stock data found"
                           /\ Len(res.body.details) = N
                           /\ rendererCalls = 0
                           /\ chartConfig = NoValue
               /\ K >= 1 => /\ Len(validStockData) = K
                            /\ Len(errors) = N - K
                            /\ chartConfig # NoValue
                            /\ rendererCalls = 1
                            /\ pc = "done" => res.status \in {200, 500}

\* five symbols, two of them succeeded, the renderer has been called
AggregatorPartitionWitness ==
    /\ pc = "rendering"
    /\ Len(fetches) = 5
    /\ Succeeded = {2, 5}
    /\ Len(validStockData) = 2
    /\ Len(errors) = 3

\* C4: a symbol whose well-formed upstream response leaves zero clean points is
\* a failure: it is never in the success partition, and a request whose
\* symbols all leave zero clean points is answered 404, not rendered.
EmptySeriesIsFailure ==
    /\ \A i \in DOMAIN fetches :
           (fetches[i].state = "settled" /\ fetches[i].value.success) =>
               Len(fetches[i].value.data) >= 1
    /\ \A k \in DOMAIN validStockData : Len(validStockData[k].data) >= 1
    /\ rendererCalls >= 1 =>
           \E i \in DOMAIN fetches :
               fetches[i].value.success /\ Len(fetches[i].value.data) >= 1

\* the 200 body carries the failure e: an entry of debug with the symbol and
\* its error, or a list of the failures
Carried(body, e) ==
    \/ \E k \in DOMAIN body.debug :
           /\ body.debug[k].symbol = e.symbol
           /\ "error" \in DOMAIN body.debug[k]
           /\ body.debug[k].error = e.error
    \/ "errors" \in DOMAIN body /\ e \in Range(body.errors)
    \/ "details" \in DOMAIN body /\ e \in Range(body.details)

\* C5: at least one symbol succeeded, at least one failed, the renderer
\* succeeded: the answer is 200 with success = true, symbols lists exactly the
\* successful symbols, and every failed symbol with its error is carried in the
\* response.
PartialFailureCarried ==
    (pc = "done" /\ req.method = "POST" /\ res.status = 200) =>
        /\ res.body.success
        /\ res.body.symbols =
               [k \in DOMAIN validStockData |-> validStockData[k].symbol]
        /\ \A i \in DOMAIN fetches :
               ~fetches[i].value.success =>
                   Carried(res.body, [symbol |-> fetches[i].symbol,
                                      error |-> fetches[i].value.error])

\* the symbols of a POST are missing, not an array, empty, or more than 5
BadSymbols ==
    IF req.body = Null THEN TRUE
    ELSE IF req.body.symbols.t # "array" THEN TRUE
    ELSE Len(req.body.symbols.items) = 0 \/ Len(req.body.symbols.items) > 5

\* C9: a POST whose symbols is missing, not an array, empty or longer than 5 is
\* answered 400 with no upstream fetch and no renderer call; a POST with 1..5
\* symbols is never answered 400.
ValidationAnswers400 ==
    (pc = "done" /\ req.method = "POST") =>
        IF BadSymbols
        THEN res.status = 400 /\ fetches = <<>> /\ rendererCalls = 0
        ELSE res.status # 400

\* the same for the requests that carry a body
ValidationOfBodies ==
    (pc = "done" /\ req.method = "POST" /\ req.body # Null) =>
        IF BadSymbols
        THEN res.status = 400 /\ fetches = <<>> /\ rendererCalls = 0
        ELSE res.status # 400

(***************************************************************************)
(* fetchStockData as a function: const {range = '1Y'} = req.body, then the *)
(* call with one clock reading and one upstream response                   *)
(***************************************************************************)
HandlerIdle ==
    /\ req = NoValue
    /\ fetches = <<>>
    /\ validStockData = <<>>
    /\ errors = <<>>
    /\ chartConfig = NoValue
    /\ rendererCalls = 0
    /\ lastSettled = 0
    /\ rendered = NoValue
    /\ res = NoValue
    /\ sent = 0

FetchInit ==
    /\ pc = "fetchStockData"
    /\ arg \in FetchArgs
    /\ ret = NoValue
    /\ HandlerIdle

FetchCall ==
    /\ pc = "fetchStockData"
    /\ pc' = "returned"
    /\ ret' = [request |-> IF IsString(arg.symbol)
                           THEN YahooRequest(arg.symbol, DefaultRange(arg.range), arg.now)
                           ELSE NoValue,
               value |-> fetchStockData(arg.symbol, DefaultRange(arg.range),
                                        arg.now, arg.response)]
    /\ UNCHANGED <<lastSettled, rendered, req, fetches, validStockData, errors, chartConfig,
                   rendererCalls, res, sent, arg>>

FetchNext == FetchCall

SpecFetch == FetchInit /\ [][FetchNext]_vars

(***************************************************************************)
(* Properties of fetchStockData (under SpecFetch)                          *)
(***************************************************************************)
\* the call returned and the upstream response carried both arrays
ReturnedSeries ==
    /\ pc = "returned"
    /\ IsString(arg.symbol)
    /\ ~arg.response.threw /\ arg.response.ok /\ arg.response.error = Null
    /\ arg.response.timestamp # Null /\ arg.response.close # Null

\* the positions of the timestamp array whose price is null, NaN or missing
DroppedPositions(ts, cl) ==
    {i \in 1..Len(ts) : i > Len(cl) \/ cl[i].t \in {"null", "NaN"}}

\* C7: the cleaned series has as many points as there are timestamps minus the
\* positions whose price is null, undefined (past the end of the close array)
\* or NaN; every cleaned price is a number; debug.cleanPoints is that length.
CleanedLength ==
    ReturnedSeries =>
        LET ts == arg.response.timestamp.items
            cl == arg.response.close.items
            v == ret.value
        IN  /\ v.success
            /\ Len(v.data) = Len(ts) - Cardinality(DroppedPositions(ts, cl))
            /\ \A k \in DOMAIN v.data : v.data[k].price \in Int
            /\ v.debug.cleanPoints = Len(v.data)
            /\ v.debug.totalPoints = Len(ts)

\* a null price and a price missing past the end are dropped, a point is kept
CleanedLengthWitness ==
    /\ ReturnedSeries
    /\ Len(arg.response.close.items) < Len(arg.response.timestamp.items)
    /\ \E i \in DOMAIN arg.response.close.items : arg.response.close.items[i] = Null
    /\ \E i \in DOMAIN arg.response.close.items : arg.response.close.items[i] = Num(0)
    /\ Len(ret.value.data) = 1

\* the points the upstream arrays pair up, prices rounded to cents
KeptPositions(ts, cl) == (1..Len(ts)) \ DroppedPositions(ts, cl)
PointAt(ts, cl, i) == [date |-> ts[i], price |-> ToFixed2(cl[i].v)]

\* C8: whatever the upstream order, the cleaned series is sorted non-decreasing
\* by date and is a permutation of the non-null input points, each timestamp
\* with its own price.
SortedPermutation ==
    ReturnedSeries =>
        LET ts == arg.response.timestamp.items
            cl == arg.response.close.items
            data == ret.value.data
            kept == KeptPositions(ts, cl)
        IN  /\ \A k \in 1..(Len(data) - 1) : data[k].date <= data[k + 1].date
            /\ \A k \in DOMAIN data :
                   Cardinality({j \in DOMAIN data : data[j] = data[k]})
                     = Cardinality({i \in kept : PointAt(ts, cl, i) = data[k]})
            /\ \A i \in kept : \E k \in DOMAIN data : data[k] = PointAt(ts, cl, i)

\* descending upstream order with a duplicated timestamp, all prices valid
SortedPermutationWitness ==
    /\ ReturnedSeries
    /\ arg.response.timestamp.items = <<86400, 3600, 3600>>
    /\ arg.response.close.items = <<Num(4), Num(12345), Num(0)>>
    /\ ret.value.data = <<[date |-> 3600, price |-> 1235], [date |-> 3600, price |-> 0],
                          [date |-> 86400, price |-> 0]>>

\* the table of the Range Resolver, in days
TableDays(token) ==
    CASE token = "1M" -> 30
      [] token = "3M" -> 90
      [] token = "6M" -> 182
      [] token = "1Y" -> 365
      [] token = "5Y" -> 1825
      [] OTHER -> 365

\* C10: period2 is the clock in whole seconds, period1 lies the table's number
\* of days before it (365 for an unknown or absent token), so period1 < period2;
\* the interval is '1wk' exactly for '5Y' and '1d' otherwise.
RangeTable ==
    (pc = "returned" /\ IsString(arg.symbol)) =>
        LET r == ret.request
        IN  /\ 1000 * r.period2 <= arg.now /\ arg.now < 1000 * (r.period2 + 1)
            /\ r.period1 = r.period2 - TableDays(arg.range) * 86400
            /\ r.period1 < r.period2
            /\ (r.interval = "1wk") = (arg.range = "5Y")
            /\ r.interval \in {"1wk", "1d"}
            /\ ret.value.success => ret.value.debug.interval = r.interval

\* every token of the table, an unknown one and an absent one were resolved
RangeTableWitness ==
    /\ pc = "returned"
    /\ IsString(arg.symbol)
    /\ arg.range = AbsentRange
    /\ arg.now = 1999
    /\ ret.request.period2 = 1
    /\ ret.request.period1 = 1 - 31536000
    /\ ret.value.success

(***************************************************************************)
(* createChartConfig as a function of the success partition                *)
(***************************************************************************)
\* the original indices (from 0) of the points emitted for each series
EmittedIndices(stockData) ==
    [j \in DOMAIN stockData |->
        IF Len(stockData) > 1
        THEN ComparisonIndices(Len(stockData[j].data))
        ELSE SingleIndices(Len(stockData[j].data))]

ChartInit ==
    /\ pc = "createChartConfig"
    /\ arg \in ChartArgs
    /\ ret = NoValue
    /\ HandlerIdle

ChartCall ==
    /\ pc = "createChartConfig"
    /\ pc' = "charted"
    /\ ret' = [config |-> createChartConfig(arg.stockData, arg.range),
               emitted |-> EmittedIndices(arg.stockData)]
    /\ UNCHANGED <<lastSettled, rendered, req, fetches, validStockData, errors, chartConfig,
                   rendererCalls, res, sent, arg>>

\* the points a single-stock chart emitted, as a series of their own
SampledSeries(data, emitted) == [k \in DOMAIN emitted |-> data[emitted[k] + 1]]

\* createChartConfig applied to the series it sampled (single stock)
ChartAgain ==
    /\ pc = "charted"
    /\ Len(arg.stockData) = 1
    /\ Len(arg.stockData[1].data) >= 1
    /\ pc' = "recharted"
    /\ LET sampled == SampledSeries(arg.stockData[1].data, ret.emitted[1])
           again == <<Stock(arg.stockData[1].symbol, sampled)>>
       IN  ret' = [first |-> ret,
                   sampled |-> sampled,
                   config |-> createChartConfig(again, arg.range),
                   emitted |-> EmittedIndices(again)]
    /\ UNCHANGED <<lastSettled, rendered, req, fetches, validStockData, errors, chartConfig,
                   rendererCalls, res, sent, arg>>

ChartNext == ChartCall \/ ChartAgain

SpecChart == ChartInit /\ [][ChartNext]_vars

\* C1: for every series of length L >= 1, in single and in comparison mode, the
\* sampled output contains the point at original index 0 and the point at
\* original index L-1.
EndpointsKept ==
    pc = "charted" =>
        \A j \in DOMAIN arg.stockData :
            LET L == Len(arg.stockData[j].data)
            IN  L >= 1 => /\ 0 \in Range(ret.emitted[j])
                          /\ (L - 1) \in Range(ret.emitted[j])

\* the chart specification carries exactly the points at the emitted indices
\* (single mode: labels and prices)
EmittedIsCharted ==
    (pc = "charted" /\ Len(arg.stockData) = 1 /\ Len(arg.stockData[1].data) >= 1) =>
        LET data == arg.stockData[1].data
            idx == ret.emitted[1]
        IN  /\ ret.config.labels = [k \in DOMAIN idx |-> DateLabel(data[idx[k] + 1].date)]
            /\ ret.config.datasets[1].data =
                   [k \in DOMAIN idx |-> Price(data[idx[k] + 1].price)]

\* C2: the number of points emitted for a series is at most the budget plus one.
AtMostBudgetPlusOne ==
    pc = "charted" =>
        /\ \A j \in DOMAIN arg.stockData : Len(ret.emitted[j]) <= SampleBudget + 1
        /\ ret.config # EmptyObject =>
               \A d \in DOMAIN ret.config.datasets :
                   Len(ret.config.datasets[d].data) <= SampleBudget + 1

\* the dataset built for the series of a symbol (symbols of ChartArgs that
\* occur once)
DatasetsOf(config, symbol) ==
    {d \in DOMAIN config.datasets : config.datasets[d].label = symbol}

\* y is the percentage change from firstPrice to price, to 2 decimals
IsPercentOf(y, price, firstPrice) ==
    /\ y.t = "pct"
    /\ firstPrice # 0
    /\ 2 * Abs(y.v * firstPrice - 10000 * (price - firstPrice)) <= Abs(firstPrice)

\* C6: in comparison mode every emitted y of every series is the percentage
\* change from that series' own first price, rounded to 2 decimals: the first
\* y of every dataset is 0 and every y is a finite number.
PercentOfOwnFirst ==
    (pc = "charted" /\ Len(arg.stockData) > 1) =>
        \A j \in DOMAIN arg.stockData :
            LET stock == arg.stockData[j]
            IN  (Len(stock.data) >= 1 /\ Cardinality(DatasetsOf(ret.config, stock.symbol)) = 1) =>
                    \A d \in DatasetsOf(ret.config, stock.symbol) :
                        LET ys == ret.config.datasets[d].data
                        IN  /\ Len(ys) = Len(ret.emitted[j])
                            /\ ys[1] = Fixed2(0)
                            /\ \A k \in DOMAIN ys :
                                   IsPercentOf(ys[k],
                                               stock.data[ret.emitted[j][k] + 1].price,
                                               stock.data[1].price)

\* C11: the sampler applied to its own output yields the same sequence of
\* points (none dropped, none added), and a series no longer than the budget
\* is returned unchanged.
SamplerIdempotent ==
    /\ pc = "recharted" =>
           /\ ret.config.labels = ret.first.config.labels
           /\ ret.config.datasets[1].data = ret.first.config.datasets[1].data
           /\ ret.emitted[1] = [k \in DOMAIN ret.sampled |-> k - 1]
    /\ (pc = "charted" /\ Len(arg.stockData) = 1
          /\ Len(arg.stockData[1].data) >= 1
          /\ Len(arg.stockData[1].data) <= SampleBudget) =>
           LET data == arg.stockData[1].data
           IN  /\ ret.config.labels = [k \in DOMAIN data |-> DateLabel(data[k].date)]
               /\ ret.config.datasets[1].data = [k \in DOMAIN data |-> Price(data[k].price)]

\* a series of 149 points, sampled to 76, sampled again
SamplerIdempotentWitness ==
    /\ pc = "recharted"
    /\ Len(arg.stockData[1].data) = 149
    /\ Len(ret.first.config.labels) = 76
    /\ Len(ret.config.labels) = 76

\* C13: in comparison mode every dataset is plotted against its own series'
\* dates: it has as many y-values as there are labels, and the k-th label is
\* the date of the k-th sampled point of that series.
OwnDates ==
    (pc = "charted" /\ Len(arg.stockData) > 1) =>
        \A j \in DOMAIN arg.stockData :
            LET stock == arg.stockData[j]
            IN  (Len(stock.data) >= 1 /\ Cardinality(DatasetsOf(ret.config, stock.symbol)) = 1) =>
                    \A d \in DatasetsOf(ret.config, stock.symbol) :
                        /\ Len(ret.config.datasets[d].data) = Len(ret.config.labels)
                        /\ \A k \in DOMAIN ret.config.labels :
                               ret.config.labels[k] =
                                   DateLabel(stock.data[ret.emitted[j][k] + 1].date)

\* C19: in single mode the original indices emitted are strictly increasing
\* (no index, in particular the last, is emitted twice) and the emitted dates
\* are in ascending order.
NoDuplicateEndpoint ==
    (pc = "charted" /\ Len(arg.stockData) = 1) =>
        /\ \A k \in 1..(Len(ret.emitted[1]) - 1) :
               ret.emitted[1][k] < ret.emitted[1][k + 1]
        /\ ret.config # EmptyObject =>
               \A k \in 1..(Len(ret.config.labels) - 1) :
                   ret.config.labels[k] <= ret.config.labels[k + 1]

(***************************************************************************)
(* Order of the partitions, fan-out, renderer and response discipline      *)
(* (under Spec)                                                            *)
(***************************************************************************)
\* the request indices whose fetch failed
Failed == DOMAIN fetches \ Succeeded

\* the indices of S in ascending order
SortedIndices(S) ==
    [k \in 1..Cardinality(S) |->
        CHOOSE i \in S : Cardinality({j \in S : j < i}) = k - 1]

\* C12: whatever the order in which the fetches complete, the success
\* partition lists the successful request indices in ascending order and the
\* failure partition the failed ones in ascending order (each entry is the
\* symbol and the result of its own index), every request index is in exactly
\* one of the two, and the symbols field of a 200 response is the success
\* subsequence of the request's symbols.
AggregatorOrder ==
    Partitioned =>
        LET symbols == req.body.symbols.items
            s == SortedIndices(Succeeded)
            f == SortedIndices(Failed)
        IN  /\ Len(validStockData) = Len(s)
            /\ \A k \in DOMAIN s :
                   /\ validStockData[k].symbol = symbols[s[k]]
                   /\ validStockData[k].data = fetches[s[k]].value.data
            /\ Len(errors) = Len(f)
            /\ \A k \in DOMAIN f :
                   /\ errors[k].symbol = symbols[f[k]]
                   /\ errors[k].error = fetches[f[k]].value.error
            /\ Len(s) + Len(f) = Len(symbols)
            /\ (pc = "done" /\ res.status = 200) =>
                   res.body.symbols = [k \in DOMAIN s |-> symbols[s[k]]]

\* five symbols with AAPL at indices 1 and 4; indices 1, 3 and 4 succeeded,
\* index 1 completed last; the 200 response lists AAPL, GOOGL, AAPL
AggregatorOrderWitness ==
    /\ pc = "done"
    /\ res.status = 200
    /\ Len(fetches) = 5
    /\ Succeeded = {1, 3, 4}
    /\ lastSettled = 1
    /\ res.body.symbols = <<"AAPL", "GOOGL", "AAPL">>
    /\ [k \in DOMAIN errors |-> errors[k].symbol] = <<"MSFT", "TSLA">>

\* the number of upstream price-history calls made for the request
RECURSIVE UpstreamCallCount(_)
UpstreamCallCount(index) ==
    IF index > Len(fetches) THEN 0
    ELSE fetches[index].upstreamCalls + UpstreamCallCount(index + 1)

NonStringEntry ==
    \A i \in DOMAIN fetches :
        ~IsString(req.body.symbols.items[i]) =>
            /\ fetches[i].upstreamCalls = 0
            /\ fetches[i].state = "settled"
            /\ ~fetches[i].value.success

\* C15: the renderer was called (so at least one symbol succeeded) and has
\* answered.  If the call threw or the response was not ok, the answer is 500
\* with error 'Failed to generate chart', not 200; if the response was ok and
\* its body was read, the answer is 200 and image is 'data:image/png;base64,'
\* followed by the base64 text of the body.
RendererFailure ==
    rendered # NoValue =>
        /\ pc = "done" /\ sent = 1
        /\ Cardinality(Succeeded) >= 1
        /\ (rendered.threw \/ ~rendered.ok) =>
               /\ res.status = 500
               /\ res.body.error = "Failed to generate chart"
               /\ "image" \notin DOMAIN res.body
        /\ (~rendered.threw /\ rendered.ok) =>
               /\ res.status = 200
               /\ res.body.image = <<"data:image/png;base64,", Base64(rendered.buffer)>>

\* two symbols, the second succeeded, the renderer answered with a response
\* that is not ok: 500
RendererFailureWitness ==
    /\ rendered # NoValue
    /\ ~rendered.threw /\ ~rendered.ok
    /\ Len(fetches) = 2
    /\ Succeeded = {2}
    /\ res.status = 500
    /\ res.body.message = "Failed to generate chart from QuickChart"

\* the renderer answered ok: 200 with the data URI of the image
RendererOk ==
    /\ rendered # NoValue
    /\ ~rendered.threw /\ rendered.ok
    /\ res.status = 200
    /\ res.body.image = <<"data:image/png;base64,", "UE5H">>

\* the label of the j-th dataset of a chart of K series
DatasetLabel(K, symbol) == IF K = 1 THEN <<symbol, "Price">> ELSE symbol

\* C16: the chart built from a success partition of K >= 1 series has exactly
\* K datasets, the j-th labelled with the j-th successful symbol (single
\* stock: the symbol followed by 'Price'), so that every symbol listed in the
\* symbols field of the response has its dataset.
OneDatasetPerSuccess ==
    chartConfig # NoValue =>
        LET K == Len(validStockData)
        IN  /\ K >= 1
            /\ chartConfig.type = "line"
            /\ Len(chartConfig.datasets) = K
            /\ \A j \in DOMAIN validStockData :
                   chartConfig.datasets[j].label =
                       DatasetLabel(K, validStockData[j].symbol)

\* the same for the success partitions without an empty series
OneDatasetPerNonEmptySeries ==
    (/\ chartConfig # NoValue
     /\ \A j \in DOMAIN validStockData : Len(validStockData[j].data) >= 1) =>
        LET K == Len(validStockData)
        IN  /\ K >= 1
            /\ chartConfig.type = "line"
            /\ Len(chartConfig.datasets) = K
            /\ \A j \in DOMAIN validStockData :
                   chartConfig.datasets[j].label =
                       DatasetLabel(K, validStockData[j].symbol)

\* three successful series, three datasets
ThreeDatasets ==
    /\ chartConfig # NoValue
    /\ Len(validStockData) = 3
    /\ Len(chartConfig.datasets) = 3

\* C17: the mode follows the number of successful series, not of requested
\* symbols.  One successful series: the y-axis title is 'Price ($)' and the
\* y-values are the cleaned prices of the sampled points.  Two or more: the
\* y-axis title is 'Percentage Change (%)' and every y-value is a percentage.
ModeSelection ==
    chartConfig # NoValue =>
        IF Len(validStockData) = 1
        THEN /\ chartConfig.type = "line"
             /\ chartConfig.yTitle = "Price ($)"
             /\ LET data == validStockData[1].data
                    idx == SingleIndices(Len(data))
                IN  chartConfig.datasets[1].data =
                        [k \in DOMAIN idx |-> Price(data[idx[k] + 1].price)]
        ELSE /\ chartConfig.type = "line"
             /\ chartConfig.yTitle = "Percentage Change (%)"
             /\ \A d \in DOMAIN chartConfig.datasets :
                    \A k \in DOMAIN chartConfig.datasets[d].data :
                        chartConfig.datasets[d].data[k].t = "pct"

\* the branch taken follows the number of successful series: whenever a chart
\* comes out, its y-axis title is the '$' one exactly for one successful
\* series, whose y-values are then prices; with more series no y-value is a
\* price
ModeByValidCount ==
    (chartConfig # NoValue /\ chartConfig # EmptyObject) =>
        /\ (chartConfig.yTitle = "Price ($)") = (Len(validStockData) = 1)
        /\ (chartConfig.yTitle = "Percentage Change (%)") = (Len(validStockData) > 1)
        /\ \A d \in DOMAIN chartConfig.datasets :
               \A k \in DOMAIN chartConfig.datasets[d].data :
                   (chartConfig.datasets[d].data[k].t = "price")
                       = (Len(validStockData) = 1)

\* three symbols requested, one successful series with points: single mode
SingleOfThree ==
    /\ chartConfig # NoValue
    /\ Len(fetches) = 3
    /\ Len(validStockData) = 1
    /\ Len(validStockData[1].data) >= 1
    /\ chartConfig.yTitle = "Price ($)"

(***************************************************************************)
(* The stock-data endpoint (src/api/stock-data.js): a proxy to the quote   *)
(* provider.  It uses pc, req, fetches (here: the calls made to the        *)
(* provider, with what the provider answered), res and sent.               *)
(***************************************************************************)
\* a query or body parameter that is not there
AbsentParam == "<absent>"

\* !value for a parameter: not there, or the empty string
Falsy(value) == value = AbsentParam \/ value = ""

StockDataSymbols == {AbsentParam, "", "aapl", "MSFT", NonString}
StockDataEndpoints == {AbsentParam, "", "quote", "profile", "metrics", "candles"}

\* req.query / req.body as an object with the two parameters
Params(symbol, endpoint) == [t |-> "params", symbol |-> symbol, endpoint |-> endpoint]

\* the requests: body is what the handler destructures, the query of a GET
\* (always an object) and the body of a POST (an object, or none)
StockDataRequests ==
    {[method |-> m, body |-> Null] : m \in {"OPTIONS", "PUT", "DELETE", "POST"}} \cup
    {[method |-> m, body |-> Params(s, e)] :
        m \in {"GET", "POST"}, s \in StockDataSymbols, e \in StockDataEndpoints}

\* a JSON document of the provider
Json(v) == [t |-> "json", v |-> v]
\* a body that is no JSON
NotJson == [t |-> "text"]

\* what the provider answers to a call: fetch throws, or a response with its
\* ok flag, status and body
ProviderOutcomes ==
    {[threw |-> TRUE, ok |-> FALSE, status |-> 0, body |-> NotJson]} \cup
    {[threw |-> FALSE, ok |-> TRUE, status |-> 200, body |-> b] :
        b \in {Json("c=189.5"), Json("{}"), NotJson}} \cup
    {[threw |-> FALSE, ok |-> FALSE, status |-> st, body |-> b] :
        st \in {401, 429, 502}, b \in {Json("error"), NotJson}}

\* endpoint || 'quote'
ApiEndpoint(endpoint) == IF Falsy(endpoint) THEN "quote" ELSE endpoint

\* switch (apiEndpoint): the path of the provider's URL, none for the default
FinnhubPath(apiEndpoint) ==
    CASE apiEndpoint = "quote" -> Some("quote")
      [] apiEndpoint = "profile" -> Some("stock/profile2")
      [] apiEndpoint = "metrics" -> Some("stock/metric")
      [] OTHER -> Undefined

\* the catch block
StockDataCaught(message) == [error |-> "Failed to fetch stock data", message |-> message]

StockDataInit ==
    /\ pc = "stockData"
    /\ req \in StockDataRequests
    /\ fetches = <<>>
    /\ validStockData = <<>>
    /\ errors = <<>>
    /\ chartConfig = NoValue
    /\ rendererCalls = 0
    /\ lastSettled = 0
    /\ rendered = NoValue
    /\ res = NoValue
    /\ sent = 0
    /\ arg = NoValue
    /\ ret = NoValue

\* send a response and finish
StockDataSend(status, body) ==
    /\ res' = Response(status, body)
    /\ sent' = sent + 1
    /\ pc' = "stockDataDone"
    /\ UNCHANGED <<req, validStockData, errors, chartConfig, rendererCalls,
                   lastSettled, rendered, arg, ret>>

\* if (req.method === 'OPTIONS') return res.status(200).end()
StockDataPreflight ==
    /\ pc = "stockData"
    /\ req.method = "OPTIONS"
    /\ StockDataSend(200, NoValue)
    /\ UNCHANGED fetches

\* if (req.method !== 'GET' && req.method !== 'POST') return res.status(405)
StockDataMethodNotAllowed ==
    /\ pc = "stockData"
    /\ req.method \notin {"OPTIONS", "GET", "POST"}
    /\ StockDataSend(405, [error |-> "Method not allowed"])
    /\ UNCHANGED fetches

\* const { symbol, endpoint } = req.body with no body: a TypeError, caught
StockDataDestructureThrows ==
    /\ pc = "stockData"
    /\ req.method \in {"GET", "POST"}
    /\ req.body = Null
    /\ StockDataSend(500, StockDataCaught("Cannot destructure property 'symbol'"))
    /\ UNCHANGED fetches

\* if (!symbol) return res.status(400)
StockDataSymbolRequired ==
    /\ pc = "stockData"
    /\ req.method \in {"GET", "POST"}
    /\ req.body # Null
    /\ Falsy(req.body.symbol)
    /\ StockDataSend(400, [error |-> "Stock symbol is required"])
    /\ UNCHANGED fetches

\* default: return res.status(400).json({ error: 'Invalid endpoint' })
StockDataInvalidEndpoint ==
    /\ pc = "stockData"
    /\ req.method \in {"GET", "POST"}
    /\ req.body # Null
    /\ ~Falsy(req.body.symbol)
    /\ FinnhubPath(ApiEndpoint(req.body.endpoint)) = Undefined
    /\ StockDataSend(400, [error |-> "Invalid endpoint"])
    /\ UNCHANGED fetches

\* symbol.toUpperCase() of a symbol that is no string: a TypeError, caught
StockDataUpperCaseThrows ==
    /\ pc = "stockData"
    /\ req.method \in {"GET", "POST"}
    /\ req.body # Null
    /\ ~Falsy(req.body.symbol)
    /\ FinnhubPath(ApiEndpoint(req.body.endpoint)) # Undefined
    /\ ~IsString(req.body.symbol)
    /\ StockDataSend(500, StockDataCaught("symbol.toUpperCase is not a function"))
    /\ UNCHANGED fetches

\* await fetch(finnhubUrl): the call is made
StockDataFetch ==
    /\ pc = "stockData"
    /\ req.method \in {"GET", "POST"}
    /\ req.body # Null
    /\ ~Falsy(req.body.symbol)
    /\ FinnhubPath(ApiEndpoint(req.body.endpoint)) # Undefined
    /\ IsString(req.body.symbol)
    /\ fetches' = Append(fetches,
                         [path |-> FinnhubPath(ApiEndpoint(req.body.endpoint)).v,
                          symbol |-> ToUpperCase(req.body.symbol),
                          response |-> NoValue])
    /\ pc' = "stockDataFetch"
    /\ UNCHANGED <<req, validStockData, errors, chartConfig, rendererCalls,
                   lastSettled, rendered, res, sent, arg, ret>>

\* the provider answers: its JSON with 200, its status with the error
\* details, or the catch block's 500 when fetch or response.json() throws
StockDataAnswers(outcome) ==
    /\ pc = "stockDataFetch"
    /\ fetches' = [fetches EXCEPT ![Len(fetches)].response = outcome]
    /\ IF outcome.threw
       THEN StockDataSend(500, StockDataCaught("fetch failed"))
       ELSE IF outcome.body = NotJson
       THEN StockDataSend(500, StockDataCaught("Unexpected token < in JSON"))
       ELSE IF ~outcome.ok
       THEN StockDataSend(outcome.status,
                          [error |-> "Finnhub API error", details |-> outcome.body])
       ELSE StockDataSend(200, outcome.body)

StockDataNext ==
    \/ StockDataPreflight
    \/ StockDataMethodNotAllowed
    \/ StockDataDestructureThrows
    \/ StockDataSymbolRequired
    \/ StockDataInvalidEndpoint
    \/ StockDataUpperCaseThrows
    \/ StockDataFetch
    \/ \E outcome \in ProviderOutcomes : StockDataAnswers(outcome)

SpecStockData == StockDataInit /\ [][StockDataNext]_vars

\* the symbol parameter is missing: no body, no symbol, or an empty one
SymbolMissing == IF req.body = Null THEN TRUE ELSE Falsy(req.body.symbol)

\* C18: the stock-data endpoint, when it has answered.  GET or POST: a
\* missing symbol gives 400; an endpoint that is given and is none of quote,
\* profile, metrics gives 400 with no upstream call; otherwise exactly one
\* upstream call was made, to the path of the endpoint (quote when none is
\* given), and the answer is 200 with the provider's JSON when the provider
\* answered ok, the provider's status when it answered not ok.  Any other
\* method but OPTIONS: 405 with no upstream call.
StockDataDispatch ==
    (pc = "stockDataDone" /\ req.method # "OPTIONS") =>
        IF req.method \notin {"GET", "POST"}
        THEN res.status = 405 /\ fetches = <<>>
        ELSE IF SymbolMissing
        THEN res.status = 400
        ELSE IF ApiEndpoint(req.body.endpoint) \notin {"quote", "profile", "metrics"}
        THEN res.status = 400 /\ fetches = <<>>
        ELSE /\ Len(fetches) = 1
             /\ fetches[1].path = FinnhubPath(ApiEndpoint(req.body.endpoint)).v
             /\ (~fetches[1].response.threw /\ fetches[1].response.ok
                   /\ fetches[1].response.body # NotJson) =>
                    (res.status = 200 /\ res.body = fetches[1].response.body)
             /\ (~fetches[1].response.threw /\ ~fetches[1].response.ok) =>
                    res.status = fetches[1].response.status

\* the same for the requests that carry their parameters with a symbol that
\* is a string, and the provider's answers whose body is JSON
StockDataDispatchOfJson ==
    (/\ pc = "stockDataDone" /\ req.method # "OPTIONS"
     /\ req.method \in {"GET", "POST"} => req.body # Null
     /\ (req.method \in {"GET", "POST"} /\ ~SymbolMissing) => IsString(req.body.symbol)
     /\ fetches # <<>> =>
            (fetches[1].response.threw \/ fetches[1].response.body # NotJson)) =>
        IF req.method \notin {"GET", "POST"}
        THEN res.status = 405 /\ fetches = <<>>
        ELSE IF SymbolMissing
        THEN res.status = 400
        ELSE IF ApiEndpoint(req.body.endpoint) \notin {"quote", "profile", "metrics"}
        THEN res.status = 400 /\ fetches = <<>>
        ELSE /\ Len(fetches) = 1
             /\ fetches[1].path = FinnhubPath(ApiEndpoint(req.body.endpoint)).v
             /\ (~fetches[1].response.threw /\ fetches[1].response.ok) =>
                    (res.status = 200 /\ res.body = fetches[1].response.body)
             /\ (~fetches[1].response.threw /\ ~fetches[1].response.ok) =>
                    res.status = fetches[1].response.status

\* a GET of aapl with no endpoint: one call to the quote path for AAPL, the
\* provider answered 429 with a JSON body, passed through
StockDataPassThrough ==
    /\ pc = "stockDataDone"
    /\ req.method = "GET"
    /\ req.body.endpoint = AbsentParam
    /\ Len(fetches) = 1
    /\ fetches[1].path = "quote" /\ fetches[1].symbol = "AAPL"
    /\ fetches[1].response.status = 429
    /\ res = Response(429, [error |-> "Finnhub API error", details |-> Json("error")])

\* the handler, not finished, has a step to take: at the request one of the
\* answers or the fan-out; while fetches are pending an answer of the
\* provider; once all settled the 404 or (its guard: something valid) the
\* chart; while rendering an answer of the renderer
CanStep ==
    CASE pc = "request" ->
             ENABLED (Preflight \/ MethodNotAllowed \/ DestructureThrows
                        \/ RejectMissing \/ RejectTooMany \/ IssueFetches)
      [] pc = "allSettled" /\ ~AllSettled ->
             ENABLED (\E i \in DOMAIN fetches : \E response \in HandlerResponses :
                         UpstreamAnswers(i, response))
      [] pc = "allSettled" /\ AllSettled ->
             ENABLED NoValidData \/ Len(PartitionValid) # 0
      [] pc = "rendering" ->
             ENABLED (\E outcome \in RendererOutcomes : RendererAnswers(outcome))
      [] OTHER -> FALSE

\* what is left to do: the position of the handler and the pending fetches
Remaining ==
    (CASE pc = "request" -> 3
       [] pc = "allSettled" -> 2
       [] pc = "rendering" -> 1
       [] OTHER -> 0) * (MaxSymbols + 1)
    + Cardinality({i \in DOMAIN fetches : fetches[i].state = "pending"})

\* every step of the handler brings it nearer to its response: no behaviour
\* of the handler is infinite
HandlerProgresses == [][Remaining' < Remaining]_vars

\* C20: response discipline of the generate-chart handler, for every request,
\* upstream outcome, completion order and renderer outcome.  Never more than
\* one response; the handler is finished exactly when one response has been
\* sent, with status 200, 400, 404, 405 or 500, and until then it can always
\* take a step; the renderer is called at most once, and only for a POST that
\* passed validation, after every fetch settled and with a success among
\* them; OPTIONS is answered 200 and any other method but POST 405, both with
\* no upstream and no renderer call.
ResponseDiscipline ==
    /\ sent <= 1
    /\ (pc = "done") = (sent = 1)
    /\ pc = "done" => res.status \in {200, 400, 404, 405, 500}
    /\ pc # "done" => (res = NoValue /\ CanStep)
    /\ rendererCalls <= 1
    /\ rendererCalls = 1 =>
           /\ req.method = "POST"
           /\ req.body # Null
           /\ ~SymbolsRequired(req.body.symbols)
           /\ ~TooMany(req.body.symbols)
           /\ fetches # <<>>
           /\ AllSettled
           /\ Cardinality(Succeeded) >= 1
    /\ (pc = "done" /\ req.method = "OPTIONS") =>
           (res.status = 200 /\ fetches = <<>> /\ rendererCalls = 0)
    /\ (pc = "done" /\ req.method \notin {"OPTIONS", "POST"}) =>
           (res.status = 405 /\ fetches = <<>> /\ rendererCalls = 0)

\* three symbols fetched, the renderer called once, its call threw: one
\* response, 500
ResponseDisciplineWitness ==
    /\ pc = "done"
    /\ sent = 1
    /\ Len(fetches) = 3
    /\ rendererCalls = 1
    /\ rendered # NoValue
    /\ rendered.threw
    /\ res.status = 500

\* four symbols fetched, none valid: one response, 404
NoneOfFourValid == pc = "done" /\ res.status = 404 /\ Len(fetches) = 4

====
